---- MODULE Spec2Model ----
(***************************************************************************)
(* SentinelDownloader: the CSV-backed product ledger (SSatDatabase) and    *)
(* the session controller (SSatDownloader) with its two-worker background  *)
(* download, modelled from src/src/sentineldownloader/ssat_database.py and *)
(* src/src/sentineldownloader/ssat_downloader.py.                          *)
(*                                                                         *)
(* A DataFrame is a sequence of rows; a row's idx is its index label (the  *)
(* product identifier the ledger is keyed by).  Product names contain no   *)
(* dot, so a file name is a pair (stem, suffix).                           *)
(***************************************************************************)
EXTENDS Integers, Sequences, FiniteSets, TLC

VARIABLES
    api,        \* SSatDownloader.api: "api" (a tested connection) or None
    df,         \* SSatDatabase.df: NoneDf or the in-memory ledger
    folder,     \* SSatDatabase.folder: None or the database root
    search_df,  \* SSatDownloader._search_df: NoneDf or the Search Result Set
    query_args, \* SSatDownloader.query_args
    executor,   \* SSatDownloader.executor: None or "pool"
    result,     \* state of the Future of the bulk download task
    monitor,    \* state of the Future of _monitor_download and its position
    task,       \* arguments the running bulk download was given
    main,       \* position of the main thread (idle, or inside download_all)
    pending_df, \* the frame the monitor worker has computed and not yet assigned to self.df
    fs,         \* the filesystem: one entry per root path
    last        \* the operation the main thread just ran and its outcome, until it goes on

vars == <<api, df, folder, search_df, query_args, executor, result, monitor,
          task, main, pending_df, fs, last>>

-----------------------------------------------------------------------------
(* Bounds of the model *)

\* longest candidate row set handed to add_data on the store alone
MaxCand == 2
\* longest candidate row set handed to add_data within a session of the controller
MaxSessionCand == 1

\* the products a query of the external service returns, in the order of their
\* beginposition, and those api.is_online reports online
Products == <<"A">>
OnlineProducts == {"A"}
ProductIds == {Products[k] : k \in DOMAIN Products}
\* the identifiers rows may carry: B is known to the ledger only
Ids == ProductIds \cup {"B"}
Paths == {"p1", "p2", "p3", "p4"}
QueryArgs == {"q1"}

\* Python's None, for the attributes that hold a name
None == "None"

db_csv_name == [stem |-> "download_db", suffix |-> ".csv"]
qlooks_dir == "qlooks"
images_dir == "images"

Suffixes == {".zip", ".SAFE", ".part"}

-----------------------------------------------------------------------------
(* Rows and DataFrame primitives (pandas) *)

Row(i, on, dl, ql) ==
    [idx |-> i, identifier |-> i, title |-> i,
     online |-> on, downloaded |-> dl, qlook |-> ql]

\* Python's None where a DataFrame is expected (self.df, self._search_df) and
\* where a Series of paths is expected: a value no DataFrame or Series equals
NoneDf == <<Row("None", FALSE, FALSE, FALSE)>>
NonePath == [root |-> "None", dir |-> "None", stem |-> "None", suffix |-> "None"]
NoneSeries == <<NonePath>>

Rows == {Row(i, on, dl, ql) : i \in Ids, on \in BOOLEAN, dl \in BOOLEAN, ql \in BOOLEAN}

Index(d) == {d[k].idx : k \in DOMAIN d}

\* df.index.isin(other.index), as a boolean mask
isin(d, other) == [k \in DOMAIN d |-> d[k].idx \in Index(other)]

\* df.index.duplicated(): TRUE for every occurrence but the first
duplicated(d) == [k \in DOMAIN d |-> \E j \in 1..(k - 1) : d[j].idx = d[k].idx]

\* ~mask
Not(mask) == [k \in DOMAIN mask |-> ~mask[k]]

\* df[mask]: boolean indexing keeps the rows whose mask is TRUE, in order
RECURSIVE BoolIndex(_, _)
BoolIndex(d, mask) ==
    IF d = <<>> THEN <<>>
    ELSE (IF Head(mask) THEN <<Head(d)>> ELSE <<>>) \o BoolIndex(Tail(d), Tail(mask))

\* pd.concat([a, b])
concat(a, b) == a \o b

HasDuplicates(d) == \E j, k \in DOMAIN d : j < k /\ d[j].idx = d[k].idx

\* the first row labelled i (the row .loc / index alignment sees once deduplicated)
Loc(d, i) == d[CHOOSE k \in DOMAIN d : d[k].idx = i /\ \A j \in 1..(k - 1) : d[j].idx # i]

-----------------------------------------------------------------------------
(* Paths and the filesystem (pathlib) *)

Name(x) == [stem |-> x, suffix |-> ""]
\* x + '.ext' for a dot-free x
Plus(x, ext) == [stem |-> x, suffix |-> ext]
\* dir / name
Join(dir, name) == [root |-> dir.root, dir |-> dir.dir, stem |-> name.stem, suffix |-> name.suffix]
Root(p) == [root |-> p, dir |-> "", stem |-> "", suffix |-> ""]
\* folder / subdirectory
Sub(p, d) == [root |-> p, dir |-> d, stem |-> "", suffix |-> ""]

\* Path.with_suffix
with_suffix(path, s) == [path EXCEPT !.suffix = s]

FileNames == {[dir |-> images_dir, stem |-> i, suffix |-> s] : i \in Ids, s \in Suffixes}
             \cup {[dir |-> qlooks_dir, stem |-> i, suffix |-> ".jpeg"] : i \in Ids}

\* the content of a ledger file that does not exist
NoFile == <<[idx |-> "NoFile", identifier |-> "NoFile", title |-> "NoFile",
             online |-> "False", downloaded |-> "False", qlook |-> "False"]>>

Absent == [exists |-> FALSE, dirs |-> {}, csv |-> NoFile, files |-> {}]

\* Path.exists for a file inside a subdirectory, the ledger file, or a directory
exists(f, path) ==
    LET e == f[path.root] IN
    /\ e.exists
    /\ IF path.dir = ""
       THEN path.stem = "" \/ ([stem |-> path.stem, suffix |-> path.suffix] = db_csv_name /\ e.csv # NoFile)
       ELSE /\ path.dir \in e.dirs
            /\ path.stem = "" \/ [dir |-> path.dir, stem |-> path.stem, suffix |-> path.suffix] \in e.files

\* Path.mkdir(parents=True)
mkdir(f, d) ==
    [f EXCEPT ![d.root] = [@ EXCEPT !.exists = TRUE,
                                    !.dirs = IF d.dir = "" THEN @ ELSE @ \cup {d.dir}]]

\* str(bool) as DataFrame.to_csv writes it, and the parse read_csv makes of it
BoolStr(b) == IF b THEN "True" ELSE "False"
ParseBool(s) == s = "True"

\* DataFrame.to_csv: one line per row, the index first
to_csv(d) ==
    [k \in DOMAIN d |->
        [idx |-> d[k].idx, identifier |-> d[k].identifier, title |-> d[k].title,
         online |-> BoolStr(d[k].online), downloaded |-> BoolStr(d[k].downloaded),
         qlook |-> BoolStr(d[k].qlook)]]

\* pd.read_csv(..., index_col='Unnamed: 0') followed by astype(columns_dtypes)
read_csv(lines) ==
    [k \in DOMAIN lines |->
        [idx |-> lines[k].idx, identifier |-> lines[k].identifier, title |-> lines[k].title,
         online |-> ParseBool(lines[k].online), downloaded |-> ParseBool(lines[k].downloaded),
         qlook |-> ParseBool(lines[k].qlook)]]

-----------------------------------------------------------------------------
(* SSatDatabase (ssat_database.py) *)

initialized(d) == d # NoneDf

\* SSatDatabase.__len__
len(d) == IF d = NoneDf THEN 0 ELSE Len(d)

images_folder(d, fld) == IF initialized(d) THEN Sub(fld, images_dir) ELSE NonePath
qlooks_folder(d, fld) == IF initialized(d) THEN Sub(fld, qlooks_dir) ELSE NonePath
download_db_path(fld) == IF fld # None THEN Join(Root(fld), db_csv_name) ELSE NonePath

\* SSatDatabase.images_targets: images_folder / identifier, one per row
db_images_targets(d, fld) ==
    IF ~initialized(d) THEN NoneSeries
    ELSE [k \in DOMAIN d |-> Join(images_folder(d, fld), Name(d[k].identifier))]

\* SSatDatabase.quick_looks_targets: qlooks_folder / (identifier + '.jpeg')
db_quick_looks_targets(d, fld) ==
    IF ~initialized(d) THEN NoneSeries
    ELSE [k \in DOMAIN d |-> Join(qlooks_folder(d, fld), Plus(d[k].identifier, ".jpeg"))]

\* SSatDatabase.to_download: the rows whose downloaded flag is False
db_to_download(d) ==
    IF ~initialized(d) THEN NoneDf
    ELSE BoolIndex(d, [k \in DOMAIN d |-> ~d[k].downloaded])

\* check_image testing the .zip file only
check_image_zip_only(f, path) == exists(f, with_suffix(path, ".zip"))

\* SSatDatabase.check_image
check_image(f, path) ==
    LET zip_file == exists(f, with_suffix(path, ".zip"))
        safe == exists(f, with_suffix(path, ".SAFE"))
    IN zip_file \/ safe

\* SSatDatabase.save_db
save_db(d, fld, f) ==
    IF d # NoneDf THEN [f EXCEPT ![fld].csv = to_csv(d)] ELSE f

\* self.df['downloaded'] = self.images_targets.map(SSatDatabase.check_image)
set_downloaded(d, fld, f) ==
    [k \in DOMAIN d |-> [d[k] EXCEPT !.downloaded = check_image(f, db_images_targets(d, fld)[k])]]

\* self.df['qlook'] = self.quick_looks_targets.map(Path.exists)
set_qlook(d, fld, f) ==
    [k \in DOMAIN d |-> [d[k] EXCEPT !.qlook = exists(f, db_quick_looks_targets(d, fld)[k])]]

\* self.df = self.df[~self.df.index.duplicated()]
drop_duplicates(d) == BoolIndex(d, Not(duplicated(d)))

\* update saving before it drops the duplicates
update_save_first(d, fld, f) ==
    IF initialized(d) /\ len(d) > 0
    THEN LET d1 == set_downloaded(d, fld, f)
             d2 == set_qlook(d1, fld, f)
         IN [df |-> drop_duplicates(d2), fs |-> save_db(d2, fld, f)]
    ELSE [df |-> d, fs |-> f]

\* SSatDatabase.update, as one call: the new ledger and the new filesystem
update(d, fld, f) ==
    IF initialized(d) /\ len(d) > 0
    THEN LET d1 == set_downloaded(d, fld, f)
             d2 == set_qlook(d1, fld, f)
             d3 == drop_duplicates(d2)
         IN [df |-> d3, fs |-> save_db(d3, fld, f)]
    ELSE [df |-> d, fs |-> f]

\* add_data appending every candidate and keeping the last row of each identifier
add_data_keep_last(d, fld, f, rows) ==
    IF ~initialized(d) THEN [df |-> d, fs |-> f]
    ELSE LET c == concat(d, rows)
             d1 == BoolIndex(c, [k \in DOMAIN c |-> ~\E j \in (k + 1)..Len(c) : c[j].idx = c[k].idx])
         IN [df |-> d1, fs |-> save_db(d1, fld, f)]

\* add_data without the final save_db
add_data_no_save(d, fld, f, rows) ==
    IF ~initialized(d) THEN [df |-> d, fs |-> f]
    ELSE [df |-> concat(d, BoolIndex(rows, Not(isin(rows, d)))), fs |-> f]

\* SSatDatabase.add_data
add_data(d, fld, f, rows) ==
    IF ~initialized(d) THEN [df |-> d, fs |-> f]
    ELSE LET to_add == BoolIndex(rows, Not(isin(rows, d)))
             d1 == concat(d, to_add)
         IN [df |-> d1, fs |-> save_db(d1, fld, f)]

\* create making the directories with exist_ok and writing the ledger anyway
create_exist_ok(base_dir, f) ==
    LET f1 == mkdir(f, Root(base_dir))
        f2 == mkdir(f1, Sub(base_dir, qlooks_dir))
        f3 == mkdir(f2, Sub(base_dir, images_dir))
    IN [df |-> <<>>, folder |-> base_dir, fs |-> save_db(<<>>, base_dir, f3), ret |-> TRUE]

\* SSatDatabase.create
create(base_dir, f) ==
    IF exists(f, Root(base_dir))
    THEN [df |-> NoneDf, folder |-> None, fs |-> f, ret |-> FALSE]
    ELSE LET f1 == mkdir(f, Root(base_dir))
             f2 == mkdir(f1, Sub(base_dir, qlooks_dir))
             f3 == mkdir(f2, Sub(base_dir, images_dir))
             d == <<>>
         IN [df |-> d, folder |-> base_dir, fs |-> save_db(d, base_dir, f3), ret |-> TRUE]

\* open trusting the persisted flags: no update after the load
open_no_update(base_dir, f) ==
    IF /\ exists(f, download_db_path(base_dir))
       /\ exists(f, Sub(base_dir, images_dir))
       /\ exists(f, Sub(base_dir, qlooks_dir))
    THEN [df |-> read_csv(f[base_dir].csv), folder |-> base_dir, fs |-> f, ret |-> TRUE]
    ELSE [df |-> NoneDf, folder |-> None, fs |-> f, ret |-> FALSE]

\* open not testing the qlooks subdirectory
open_no_qlooks_test(base_dir, f) ==
    IF /\ exists(f, download_db_path(base_dir))
       /\ exists(f, Sub(base_dir, images_dir))
    THEN LET u == update(read_csv(f[base_dir].csv), base_dir, f)
         IN [df |-> u.df, folder |-> base_dir, fs |-> u.fs, ret |-> TRUE]
    ELSE [df |-> NoneDf, folder |-> None, fs |-> f, ret |-> FALSE]

\* SSatDatabase.open
open(base_dir, f) ==
    IF /\ exists(f, download_db_path(base_dir))
       /\ exists(f, Sub(base_dir, images_dir))
       /\ exists(f, Sub(base_dir, qlooks_dir))
    THEN LET d == read_csv(f[base_dir].csv)
             u == update(d, base_dir, f)
         IN [df |-> u.df, folder |-> base_dir, fs |-> u.fs, ret |-> TRUE]
    ELSE [df |-> NoneDf, folder |-> None, fs |-> f, ret |-> FALSE]

-----------------------------------------------------------------------------
(* SSatDownloader (ssat_downloader.py): properties and helpers *)

check_search_df(s) == ~(s = NoneDf \/ Len(s) = 0)

\* SSatDownloader._check_api
check_api(a) == a # None

\* Future.running(): neither a queued (pending) nor a finished task is running
running(fut) == fut = "running"

\* SSatDownloader._is_downloading
is_downloading(res) == res # None /\ running(res)

\* SSatDownloader.combined_df
combined_df(s, d) ==
    LET r1 == IF check_search_df(s) THEN s ELSE NoneDf
        r2 == IF initialized(d)
              THEN (IF r1 = NoneDf THEN d ELSE concat(r1, d))
              ELSE r1
    IN IF r2 # NoneDf THEN BoolIndex(r2, Not(duplicated(r2))) ELSE NoneDf

\* SSatDownloader.images_targets and quick_looks_targets return None here
targets_is_none(s, d) == ~check_search_df(s) \/ ~initialized(d)

\* SSatDownloader.images_targets: images_folder / (title + '.zip'), by index label
images_targets(s, d, fld) ==
    IF targets_is_none(s, d) THEN [i \in {} |-> NonePath]
    ELSE LET c == combined_df(s, d)
         IN [i \in Index(c) |-> Join(images_folder(d, fld), Plus(Loc(c, i).title, ".zip"))]

\* SSatDownloader.quick_looks_targets: qlooks_folder / (title + '.jpeg'), by index label
quick_looks_targets(s, d, fld) ==
    IF targets_is_none(s, d) THEN [i \in {} |-> NonePath]
    ELSE LET c == combined_df(s, d)
         IN [i \in Index(c) |-> Join(qlooks_folder(d, fld), Plus(Loc(c, i).title, ".jpeg"))]

\* SSatDownloader.to_download
to_download(s, d) ==
    IF ~initialized(d) THEN NoneDf
    ELSE LET c == combined_df(s, d)
         IN BoolIndex(c, [k \in DOMAIN c |-> ~c[k].downloaded])

\* the second half of update_local_info: the flags of the Search Result Set
search_local_info(s, d, fld, f) ==
    IF ~check_search_df(s) THEN s
    ELSE IF ~initialized(d)
    THEN [k \in DOMAIN s |-> [s[k] EXCEPT !.downloaded = FALSE, !.qlook = FALSE]]
    ELSE LET s1 == [k \in DOMAIN s |->
                       [s[k] EXCEPT !.downloaded = exists(f, images_targets(s, d, fld)[s[k].idx])]]
         IN [k \in DOMAIN s1 |->
                [s1[k] EXCEPT !.qlook = exists(f, quick_looks_targets(s1, d, fld)[s1[k].idx])]]

\* SSatDownloader.update_local_info, as one call
update_local_info(s, d, fld, f) ==
    LET u == update(d, fld, f)
    IN [df |-> u.df, fs |-> u.fs, search_df |-> search_local_info(s, u.df, fld, u.fs)]

\* what sentinelsat's download_all leaves in the directory for one product
Artifact(i) == [dir |-> images_dir, stem |-> i, suffix |-> ".zip"]

AddFiles(f, p, files) == [f EXCEPT ![p].files = @ \cup files]

-----------------------------------------------------------------------------
(* Initial state: the controller just constructed (ssat_downloader.py 21-44,   *)
(* ssat_database.py 61-69), over a filesystem where p1 does not exist and     *)
(* p2, p3, p4 are directories that each lack one part of a database.          *)

Idle == [pc |-> "idle", ids |-> {}, dir |-> None]
NoTask == [ids |-> {}, dir |-> None]

\* op: the operation; ret: what it returned; raised: it ended in an exception;
\* path, arg: the base_dir given to create/open, the rows given to add_data
Last(op, ret) == [op |-> op, ret |-> ret, raised |-> FALSE, path |-> None, arg |-> <<>>]
\* no outcome is waiting to be looked at
Neutral == Last("none", "None")
\* the main thread is between two operations
Ready == main.pc = "idle" /\ last = Neutral

InitFs ==
    [p \in Paths |->
        CASE p = "p1" -> Absent
          [] p = "p2" -> [exists |-> TRUE, dirs |-> {qlooks_dir}, csv |-> to_csv(<<>>), files |-> {}]
          [] p = "p3" -> [exists |-> TRUE, dirs |-> {images_dir}, csv |-> to_csv(<<>>), files |-> {}]
          [] p = "p4" -> [exists |-> TRUE, dirs |-> {images_dir, qlooks_dir}, csv |-> NoFile, files |-> {}]]

Init ==
    /\ api \in {"api", None}
    /\ df = NoneDf
    /\ folder = None
    /\ search_df = NoneDf
    /\ query_args = None
    /\ executor = None
    /\ result = None
    /\ monitor = None
    /\ task = NoTask
    /\ main = Idle
    /\ pending_df = NoneDf
    /\ fs = InitFs
    /\ last = Neutral

\* candidate rows a caller hands to add_data: new rows, and a row of A whose flags
\* claim files that may not exist
FreshRows == {Row(i, FALSE, FALSE, FALSE) : i \in Ids}
CandRows == FreshRows \cup {Row("A", FALSE, TRUE, TRUE)}
RECURSIVE SeqsUpTo(_, _)
SeqsUpTo(S, n) ==
    IF n = 0 THEN {<<>>}
    ELSE LET shorter == SeqsUpTo(S, n - 1)
         IN shorter \cup {Append(q, x) : q \in shorter, x \in S}
Cands == SeqsUpTo(CandRows, MaxCand)

-----------------------------------------------------------------------------
(* Operations of the main thread on the store *)

\* SSatDownloader.connect
Connect ==
    /\ Ready
    /\ \E a \in {"api", None} : api' = a
    /\ last' = Last("connect", "None")
    /\ UNCHANGED <<pending_df, df, folder, search_df, query_args, executor, result, monitor, task, main, fs>>

\* SSatDownloader.create_database -> SSatDatabase.create
CreateDatabase(p) ==
    /\ Ready
    /\ LET r == create(p, fs)
       IN /\ df' = r.df
          /\ folder' = r.folder
          /\ fs' = r.fs
          /\ last' = [Last("create", BoolStr(r.ret)) EXCEPT !.path = p]
    /\ UNCHANGED <<pending_df, api, search_df, query_args, executor, result, monitor, task, main>>

\* SSatDownloader.open_database -> SSatDatabase.open
OpenDatabase(p) ==
    /\ Ready
    /\ LET r == open(p, fs)
       IN /\ df' = r.df
          /\ folder' = r.folder
          /\ fs' = r.fs
          /\ last' = [Last("open", BoolStr(r.ret)) EXCEPT !.path = p]
    /\ UNCHANGED <<pending_df, api, search_df, query_args, executor, result, monitor, task, main>>

\* SSatDatabase.add_data, called on the controller's database
AddData(rows) ==
    /\ Ready
    /\ LET r == add_data(df, folder, fs, rows)
       IN /\ df' = r.df
          /\ fs' = r.fs
          /\ last' = [Last("add_data", "None") EXCEPT !.arg = rows]
    /\ UNCHANGED <<pending_df, api, folder, search_df, query_args, executor, result, monitor, task, main>>

\* SSatDatabase.update, called on the controller's database
UpdateDb ==
    /\ Ready
    /\ LET r == update(df, folder, fs)
       IN /\ df' = r.df
          /\ fs' = r.fs
          /\ last' = Last("update", "None")
    /\ UNCHANGED <<pending_df, api, folder, search_df, query_args, executor, result, monitor, task, main>>

\* SSatDatabase.to_download, images_targets, quick_looks_targets, images_folder,
\* qlooks_folder: read-only properties
Accessors ==
    /\ Ready
    /\ last' = Last("accessors",
                    IF /\ db_to_download(df) = NoneDf
                       /\ db_images_targets(df, folder) = NoneSeries
                       /\ db_quick_looks_targets(df, folder) = NoneSeries
                       /\ images_folder(df, folder) = NonePath
                       /\ qlooks_folder(df, folder) = NonePath
                    THEN "None" ELSE "value")
    /\ UNCHANGED <<pending_df, api, df, folder, search_df, query_args, executor, result, monitor, task, main, fs>>

-----------------------------------------------------------------------------
(* Operations of the main thread on the controller *)

\* the rows api.to_dataframe(products).sort_values(by='beginposition') gives for
\* the products ids, after filter_results, with the online column set
QueryRows(ids, online) ==
    BoolIndex([k \in DOMAIN Products |-> Row(Products[k], Products[k] \in online, FALSE, FALSE)],
              [k \in DOMAIN Products |-> Products[k] \in ids])

\* SSatDownloader.query: args are the keyword arguments, ids the products left by
\* the post filter
Query(args, ids, search_online) ==
    /\ Ready
    /\ IF ~check_api(api) \/ is_downloading(result)
       THEN /\ last' = Last("query", "rejected")
            /\ UNCHANGED <<df, search_df, query_args, fs>>
       ELSE LET online == IF search_online THEN OnlineProducts ELSE {}
                u == update_local_info(QueryRows(ids, online), df, folder, fs)
            IN /\ query_args' = args
               /\ df' = u.df
               /\ fs' = u.fs
               /\ search_df' = u.search_df
               /\ last' = Last("query", "issued")
    /\ UNCHANGED <<pending_df, api, folder, executor, result, monitor, task, main>>

\* SSatDownloader.update_local_info
UpdateLocalInfo ==
    /\ Ready
    /\ LET u == update_local_info(search_df, df, folder, fs)
       IN /\ df' = u.df
          /\ fs' = u.fs
          /\ search_df' = u.search_df
    /\ last' = Last("update_local_info", "None")
    /\ UNCHANGED <<pending_df, api, folder, query_args, executor, result, monitor, task, main>>

\* executor.submit(api.download_all, to_download.index, images_folder) and
\* executor.submit(_monitor_download)
Submit(s, d) ==
    /\ executor' = "pool"
    /\ result' = "pending"
    /\ task' = [ids |-> Index(to_download(s, d)), dir |-> folder]
    /\ monitor' = "pending"

\* executor.shutdown(wait=False): returns whatever the state of the tasks
shutdown_no_wait == TRUE

\* the tasks of the current pool are all finished, so shutdown() returns at once
PoolDrained == result \in {None, "done"} /\ monitor \in {None, "done"}

\* SSatDownloader.download_all, up to the point where it returns, blocks in
\* executor.shutdown() or enters the synchronous api.download_all
DownloadAll(background) ==
    /\ Ready
    /\ IF ~initialized(df)
       THEN /\ last' = Last("download_all", "None")
            /\ UNCHANGED <<df, fs, executor, result, monitor, task, main>>
       ELSE LET a == IF search_df # NoneDf
                     THEN add_data(df, folder, fs, search_df)
                     ELSE [df |-> df, fs |-> fs]
                td == to_download(search_df, a.df)
            IN /\ df' = a.df
               /\ fs' = a.fs
               /\ IF len(td) = 0
                  THEN /\ last' = Last("download_all", "nothing")
                       /\ UNCHANGED <<executor, result, monitor, task, main>>
                  ELSE IF api = None
                  THEN \* self.api.logger on None raises AttributeError
                       /\ last' = [Last("download_all", "None") EXCEPT !.raised = TRUE]
                       /\ UNCHANGED <<executor, result, monitor, task, main>>
                  ELSE IF background
                  THEN IF executor # None /\ ~PoolDrained
                       THEN /\ main' = [Idle EXCEPT !.pc = "shutdown"]
                            /\ last' = Last("download_all", "blocked")
                            /\ UNCHANGED <<executor, result, monitor, task>>
                       ELSE /\ Submit(search_df, a.df)
                            /\ last' = Last("download_all", "submitted")
                            /\ UNCHANGED main
                  ELSE /\ main' = [pc |-> "sync", ids |-> Index(td), dir |-> folder]
                       /\ last' = Last("download_all", "downloading")
                       /\ UNCHANGED <<executor, result, monitor, task>>
    /\ UNCHANGED <<pending_df, api, folder, search_df, query_args>>

\* download_all(background=True) leaving executor.shutdown(): both tasks of the
\* old pool have finished; a new pool gets the two new tasks
DownloadAllSubmit ==
    /\ main.pc = "shutdown"
    /\ last = Neutral
    /\ PoolDrained
    /\ Submit(search_df, df)
    /\ main' = Idle
    /\ last' = Last("download_all", "submitted")
    /\ UNCHANGED <<pending_df, api, df, folder, search_df, query_args, fs>>

\* download_all(background=False): api.download_all returns having written the
\* artifacts of some of the products, then update_local_info runs
DownloadAllSync(got) ==
    /\ main.pc = "sync"
    /\ last = Neutral
    /\ got \subseteq main.ids
    /\ LET f1 == AddFiles(fs, main.dir, {Artifact(i) : i \in got})
           u == update_local_info(search_df, df, folder, f1)
       IN /\ df' = u.df
          /\ fs' = u.fs
          /\ search_df' = u.search_df
    /\ main' = Idle
    /\ last' = Last("download_all", "downloaded")
    /\ UNCHANGED <<pending_df, api, folder, query_args, executor, result, monitor, task>>

\* SSatDownloader.download_status
DownloadStatus ==
    /\ Ready
    /\ IF result # None /\ running(result)
       THEN IF targets_is_none(search_df, df) \/ to_download(search_df, df) = NoneDf
            THEN \* None[...] or None.index raises
                 last' = [Last("download_status", "None") EXCEPT !.raised = TRUE]
            ELSE last' = Last("download_status", "None")
       ELSE last' = Last("download_status", "None")
    /\ UNCHANGED <<pending_df, api, df, folder, search_df, query_args, executor, result, monitor, task, main, fs>>

-----------------------------------------------------------------------------
(* The download worker: the Future of api.download_all *)

\* the worker thread takes the task from the queue: PENDING -> RUNNING
DownloadStart ==
    /\ last = Neutral
    /\ result = "pending"
    /\ result' = "running"
    /\ last' = Neutral
    /\ UNCHANGED <<pending_df, api, df, folder, search_df, query_args, executor, monitor, task, main, fs>>

\* the external bulk download writes the artifact of one product
DownloadFile(i) ==
    /\ last = Neutral
    /\ result = "running"
    /\ i \in task.ids
    /\ Artifact(i) \notin fs[task.dir].files
    /\ fs' = AddFiles(fs, task.dir, {Artifact(i)})
    /\ last' = Neutral
    /\ UNCHANGED <<pending_df, api, df, folder, search_df, query_args, executor, result, monitor, task, main>>

\* the external bulk download returns (or raises): RUNNING -> FINISHED
DownloadFinish ==
    /\ last = Neutral
    /\ result = "running"
    /\ result' = "done"
    /\ last' = Neutral
    /\ UNCHANGED <<pending_df, api, df, folder, search_df, query_args, executor, monitor, task, main, fs>>

-----------------------------------------------------------------------------
(* The monitor worker: SSatDownloader._monitor_download *)

MonitorStep(pc, raised) ==
    /\ monitor' = pc
    /\ last' = IF raised THEN [Last("monitor", "None") EXCEPT !.raised = TRUE] ELSE Neutral

\* the second worker thread takes the monitor task from the queue
MonitorStart ==
    /\ last = Neutral
    /\ monitor = "pending"
    /\ MonitorStep("poll", FALSE)
    /\ UNCHANGED <<pending_df, api, df, folder, search_df, query_args, executor, result, task, main, fs>>

\* while self.result.running(): sleep -- the loop is left when running() is False;
\* update_local_info -> database.update tests initialized() and len(self) > 0
MonitorPoll ==
    /\ last = Neutral
    /\ monitor = "poll"
    /\ ~running(result)
    /\ MonitorStep(IF initialized(df) /\ len(df) > 0 THEN "update" ELSE "search", FALSE)
    /\ UNCHANGED <<pending_df, api, df, folder, search_df, query_args, executor, result, task, main, fs>>

\* database.update: the two flag columns are set in place on self.df, then the
\* right-hand side self.df[~self.df.index.duplicated()] is evaluated; with self.df
\* None by now, self.images_targets.map raises and the task ends
MonitorUpdate ==
    /\ last = Neutral
    /\ monitor = "update"
    /\ IF initialized(df)
       THEN /\ df' = set_qlook(set_downloaded(df, folder, fs), folder, fs)
            /\ pending_df' = drop_duplicates(df')
            /\ MonitorStep("assign", FALSE)
       ELSE /\ MonitorStep("done", TRUE)
            /\ UNCHANGED <<df, pending_df>>
    /\ UNCHANGED <<api, folder, search_df, query_args, executor, result, task, main, fs>>

\* database.update: self.df = <the frame evaluated>; the threads share self.df with
\* no lock, so what the main thread assigned in between is overwritten
MonitorAssign ==
    /\ last = Neutral
    /\ monitor = "assign"
    /\ df' = pending_df
    /\ pending_df' = NoneDf
    /\ MonitorStep("save", FALSE)
    /\ UNCHANGED <<api, folder, search_df, query_args, executor, result, task, main, fs>>

\* database.update: self.save_db(); with self.folder None by now,
\* self.folder / db_csv_name raises and the task ends
MonitorSave ==
    /\ last = Neutral
    /\ monitor = "save"
    /\ IF initialized(df) /\ folder = None
       THEN /\ MonitorStep("done", TRUE)
            /\ UNCHANGED fs
       ELSE /\ fs' = save_db(df, folder, fs)
            /\ MonitorStep("search", FALSE)
    /\ UNCHANGED <<pending_df, api, df, folder, search_df, query_args, executor, result, task, main>>

\* update_local_info: the flags of the Search Result Set; then the task returns
MonitorSearchInfo ==
    /\ last = Neutral
    /\ monitor = "search"
    /\ search_df' = search_local_info(search_df, df, folder, fs)
    /\ MonitorStep("done", FALSE)
    /\ UNCHANGED <<pending_df, api, df, folder, query_args, executor, result, task, main, fs>>

-----------------------------------------------------------------------------
(* The files of a database changed from outside the program *)

IsDatabase(f, p) == f[p].dirs = {images_dir, qlooks_dir} /\ f[p].csv # NoFile

FsPut(p, file) ==
    /\ last = Neutral
    /\ IsDatabase(fs, p)
    /\ file \notin fs[p].files
    /\ fs' = AddFiles(fs, p, {file})
    /\ last' = Neutral
    /\ UNCHANGED <<pending_df, api, df, folder, search_df, query_args, executor, result, monitor, task, main>>

FsDel(p, file) ==
    /\ last = Neutral
    /\ file \in fs[p].files
    /\ fs' = [fs EXCEPT ![p].files = @ \ {file}]
    /\ last' = Neutral
    /\ UNCHANGED <<pending_df, api, df, folder, search_df, query_args, executor, result, monitor, task, main>>

-----------------------------------------------------------------------------

\* the main thread goes on after an operation: its outcome is dropped
Continue ==
    /\ last # Neutral
    /\ last' = Neutral
    /\ UNCHANGED <<pending_df, api, df, folder, search_df, query_args, executor, result, monitor, task, main, fs>>

\* create and open, which reset self.df and self.folder, are taken between two
\* statements of the monitor worker; add_data, update, query, update_local_info and
\* download_all are also taken between the evaluation and the assignment of
\* self.df = self.df[...]
AtStatementBoundary == monitor # "assign"
BoundaryPaths == IF AtStatementBoundary THEN Paths ELSE {}

\* the files put or removed from outside: those of product A and the artifact
\* of B; for the controller, the finished artifacts of A only
EnvFiles == {x \in FileNames : x.stem = "A"} \cup {Artifact("B")}
EnvArtifacts == {x \in EnvFiles : x.stem = "A" /\ x.suffix \in {".zip", ".SAFE"}}

Next ==
    \/ Connect
    \/ \E p \in BoundaryPaths : CreateDatabase(p)
    \/ \E p \in BoundaryPaths : OpenDatabase(p)
    \/ \E rows \in SeqsUpTo(FreshRows, MaxSessionCand) : AddData(rows)
    \/ UpdateDb
    \/ Accessors
    \/ \E args \in QueryArgs, ids \in SUBSET ProductIds : Query(args, ids, FALSE)
    \/ UpdateLocalInfo
    \/ \E background \in BOOLEAN : DownloadAll(background)
    \/ DownloadAllSubmit
    \/ \E got \in SUBSET Ids : DownloadAllSync(got)
    \/ DownloadStatus
    \/ DownloadStart
    \/ \E i \in Ids : DownloadFile(i)
    \/ DownloadFinish
    \/ MonitorStart
    \/ MonitorPoll
    \/ MonitorUpdate
    \/ MonitorAssign
    \/ MonitorSave
    \/ MonitorSearchInfo
    \/ \E p \in Paths, file \in EnvArtifacts : FsPut(p, file)
    \/ \E p \in Paths, file \in EnvArtifacts : FsDel(p, file)
    \/ Continue

Spec == Init /\ [][Next]_vars

\* The store alone: any sequence of create, open, add_data and update, with any
\* candidate rows, over a filesystem that changes from outside
NextDb ==
    \/ \E p \in Paths : CreateDatabase(p)
    \/ \E p \in Paths : OpenDatabase(p)
    \/ \E rows \in Cands : AddData(rows)
    \/ UpdateDb
    \/ \E p \in Paths, file \in EnvFiles : FsPut(p, file)
    \/ \E p \in Paths, file \in EnvFiles : FsDel(p, file)
    \/ Continue

SpecDb == Init /\ [][NextDb]_vars

\* A session that builds a ledger and downloads in the background, with the
\* scheduling the threads get: a thread of the pool that can run does run (the
\* queue hands each task to a thread; time.sleep(60) returns), the external bulk
\* download returns, executor.shutdown() returns once the tasks are finished, and
\* the main thread goes on after each call.  What the main thread calls next, and
\* which products the bulk download fetches, is not forced.
NextLive ==
    \/ \E p \in BoundaryPaths : CreateDatabase(p)
    \/ \E rows \in SeqsUpTo(FreshRows, MaxSessionCand) : AddData(rows)
    \/ DownloadAll(TRUE)
    \/ DownloadAllSubmit
    \/ DownloadStart
    \/ \E i \in Ids : DownloadFile(i)
    \/ DownloadFinish
    \/ MonitorStart
    \/ MonitorPoll
    \/ MonitorUpdate
    \/ MonitorAssign
    \/ MonitorSave
    \/ MonitorSearchInfo
    \/ Continue

WorkersFair ==
    /\ SF_vars(DownloadStart)
    /\ SF_vars(DownloadFinish)
    /\ SF_vars(MonitorStart)
    /\ SF_vars(MonitorPoll)
    /\ SF_vars(MonitorUpdate)
    /\ SF_vars(MonitorAssign)
    /\ SF_vars(MonitorSave)
    /\ SF_vars(MonitorSearchInfo)
    /\ SF_vars(DownloadAllSubmit)
    /\ WF_vars(Continue)

SpecLive == Init /\ [][NextLive]_vars /\ WorkersFair

\* The views of the controller over a ledger built by hand: create, add_data
\* with any candidate rows, and queries with or without the online check
NextView ==
    \/ \E p \in Paths : CreateDatabase(p)
    \/ \E rows \in Cands : AddData(rows)
    \/ \E args \in QueryArgs, ids \in SUBSET ProductIds, search_online \in BOOLEAN :
          Query(args, ids, search_online)
    \/ Continue

SpecView == Init /\ [][NextView]_vars

\* A first background download with create and open called at any moment of the
\* monitor worker, also between the evaluation and the assignment of
\* self.df = self.df[...].  Once a ledger is in memory with no folder every
\* further add_data or download_all raises in save_db; they are left out.
HasFolder == initialized(df) => folder # None
NextReset ==
    \/ \E p \in Paths : CreateDatabase(p)
    \/ \E p \in Paths : OpenDatabase(p)
    \/ \E rows \in SeqsUpTo(FreshRows, MaxSessionCand) : HasFolder /\ AddData(rows)
    \/ HasFolder /\ executor = None /\ DownloadAll(TRUE)
    \/ DownloadStart
    \/ \E i \in Ids : DownloadFile(i)
    \/ DownloadFinish
    \/ MonitorStart
    \/ MonitorPoll
    \/ MonitorUpdate
    \/ MonitorAssign
    \/ MonitorSave
    \/ MonitorSearchInfo
    \/ Continue

SpecReset == Init /\ [][NextReset]_vars

-----------------------------------------------------------------------------
(* Properties *)

\* what is on disk for a row, read off the directory listing
ArtifactOnDisk(f, fld, name) ==
    \E sfx \in {".zip", ".SAFE"} : [dir |-> images_dir, stem |-> name, suffix |-> sfx] \in f[fld].files
ThumbnailOnDisk(f, fld, name) ==
    [dir |-> qlooks_dir, stem |-> name, suffix |-> ".jpeg"] \in f[fld].files
LayoutComplete(f, p) ==
    f[p].exists /\ images_dir \in f[p].dirs /\ qlooks_dir \in f[p].dirs /\ f[p].csv # NoFile

\* C1: the in-memory ledger never holds two rows with the same identifier, whatever
\* sequence of create, open, add_data and update ran and whatever rows were merged.
C1_IdentifierUniqueness == initialized(df) => ~HasDuplicates(df)

\* C2: add_data on an initialized store leaves the identifier set equal to the old
\* one united with the candidates', keeps every old row as it was and in place, and
\* appends only candidates whose identifier was absent.
C2_MergeAppendsAbsent ==
    [][(last'.op = "add_data" /\ initialized(df)) =>
          LET rows == last'.arg
          IN /\ Index(df') = Index(df) \cup Index(rows)
             /\ Len(df') >= Len(df)
             /\ SubSeq(df', 1, Len(df)) = df
             /\ \A k \in (Len(df) + 1)..Len(df') :
                   /\ df'[k].idx \notin Index(df)
                   /\ \E j \in DOMAIN rows : rows[j] = df'[k]]_vars

\* a ledger holding A was merged with a differing row of A and a row of B
C2_Witness ==
    /\ last.op = "add_data"
    /\ last.arg = <<Row("A", FALSE, TRUE, TRUE), Row("B", FALSE, FALSE, FALSE)>>
    /\ df = <<Row("A", FALSE, FALSE, FALSE), Row("B", FALSE, FALSE, FALSE)>>

C4_ReconcileFlags ==
    (last.op = "update" /\ initialized(df) /\ len(df) > 0) =>
        \A k \in DOMAIN df :
            /\ df[k].downloaded <=> ArtifactOnDisk(fs, folder, df[k].identifier)
            /\ df[k].qlook <=> ThumbnailOnDisk(fs, folder, df[k].identifier)

\* update ran with only A.SAFE on disk: A is downloaded, B is not
C4_Witness ==
    /\ last.op = "update"
    /\ df = <<Row("A", FALSE, TRUE, FALSE), Row("B", FALSE, FALSE, FALSE)>>
    /\ fs[folder].files = {[dir |-> images_dir, stem |-> "A", suffix |-> ".SAFE"]}

\* C5: update is idempotent: right after an update, a second update with the same
\* filesystem leaves the in-memory ledger and the persisted ledger as they are.
C5_ReconcileIdempotent ==
    last.op = "update" => update(df, folder, fs) = [df |-> df, fs |-> fs]

\* update ran on a non-empty ledger and set a flag
C5_Witness ==
    /\ last.op = "update"
    /\ initialized(df)
    /\ \E k \in DOMAIN df : df[k].downloaded /\ df[k].qlook

\* C6: right after a successful open every row's downloaded flag says whether its
\* artifact is on disk now.
C6_OpenRecomputesDownloaded ==
    (last.op = "open" /\ last.ret = "True") =>
        \A k \in DOMAIN df : df[k].downloaded <=> ArtifactOnDisk(fs, folder, df[k].identifier)

\* a database was opened with the artifact of B on disk and none of A: the
\* ledger says B is downloaded and A is not
C6_Witness ==
    /\ last.op = "open"
    /\ last.ret = "True"
    /\ fs[folder].files = {[dir |-> images_dir, stem |-> "B", suffix |-> ".zip"]}
    /\ \E k \in DOMAIN df : df[k].idx = "A" /\ ~df[k].downloaded
    /\ \E k \in DOMAIN df : df[k].idx = "B" /\ df[k].downloaded

\* C7: create on a path that exists returns False and changes nothing on disk.
C7_CreateOnExistingFails ==
    [][(last'.op = "create" /\ fs[last'.path].exists) =>
          (last'.ret = "False" /\ fs' = fs)]_vars

\* create was refused on p1, which holds a database with rows
C7_Witness ==
    /\ last.op = "create"
    /\ last.ret = "False"
    /\ last.path = "p1"
    /\ Len(fs["p1"].csv) > 0
    /\ fs["p1"].csv # NoFile

\* C8: open on a path that lacks the images subdirectory, the qlooks subdirectory
\* or the ledger file returns False, loads no ledger and changes nothing on disk.
C8_OpenOnBadLayoutFails ==
    [][(last'.op = "open" /\ ~LayoutComplete(fs, last'.path)) =>
          (last'.ret = "False" /\ df' = NoneDf /\ folder' = None /\ fs' = fs)]_vars

\* open was refused on p2, which has the ledger file and qlooks but no images
C8_Witness ==
    /\ last.op = "open"
    /\ last.ret = "False"
    /\ last.path = "p2"
    /\ df = NoneDf

\* C9: an operation invoked on an uninitialized store raises nothing, returns
\* None, starts no download and changes neither the ledger nor the filesystem.
UninitializedOps ==
    {"add_data", "update", "accessors", "download_all", "update_local_info", "download_status"}
C9_UninitializedNoOp ==
    [][(~initialized(df) /\ last'.op \in UninitializedOps) =>
          /\ ~last'.raised
          /\ last'.ret = "None"
          /\ df' = df
          /\ fs' = fs
          /\ <<executor', result', monitor', task', main'>> = <<executor, result, monitor, task, main>>]_vars

\* C10: with no valid connection, or with a download task submitted and not yet
\* finished, query is rejected and leaves the Search Result Set, the query
\* arguments and the ledger as they are.
C10_QueryRejected ==
    [][(last'.op = "query" /\ (~check_api(api) \/ result \in {"pending", "running"})) =>
          /\ last'.ret = "rejected"
          /\ search_df' = search_df
          /\ query_args' = query_args
          /\ df' = df]_vars

\* C11: download_all invoked while a background download is in flight (its task
\* queued or running) is rejected: the ledger, the filesystem, the worker pool,
\* its two tasks and the main thread's position are left as they are.
InFlight == result \in {"pending", "running"}
C11_DownloadAllRejected ==
    [][(main.pc = "idle" /\ last'.op = "download_all" /\ InFlight) =>
          /\ df' = df
          /\ fs' = fs
          /\ <<executor', result', monitor', task'>> = <<executor, result, monitor, task>>
          /\ main'.pc = "idle"]_vars

\* C12: a bulk download is started (a download task submitted to the pool, or
\* api.download_all entered by the main thread) only when the controller is idle,
\* that is when no bulk download it started earlier is still queued or running.
DownloadStarts ==
    \/ last'.op = "download_all" /\ last'.ret = "submitted"
    \/ main.pc # "sync" /\ main'.pc = "sync"
C12_DownloadOnlyFromIdle ==
    [][DownloadStarts => (~InFlight /\ main.pc # "sync")]_vars

\* C19: the monitor worker is past its polling loop (inside update_local_info or
\* returned) only when the download task it watches has finished.
MonitorReconciling == monitor \in {"update", "assign", "save", "search"}
C19_ReconcileAfterFinish ==
    (MonitorReconciling \/ monitor = "done") => result = "done"

\* C13: every download_all(background=True) that submitted a download is followed
\* by a state where the download task is finished, the monitor worker has
\* returned, the controller is idle again, and every ledger row of a product the
\* task was given whose artifact is on disk is flagged downloaded.
BackgroundSettled ==
    /\ result = "done"
    /\ monitor = "done"
    /\ ~is_downloading(result)
    /\ \A k \in DOMAIN df :
          (df[k].identifier \in task.ids /\ ArtifactOnDisk(fs, task.dir, df[k].identifier))
              => df[k].downloaded
C13_BackgroundDownloadSettles ==
    (last.op = "download_all" /\ last.ret = "submitted") ~> BackgroundSettled

\* C14: when download_all(background=False) completes, every product of the
\* pre-call to-download set whose artifact (.zip or .SAFE) is on disk is flagged
\* downloaded in the ledger and in the Search Result Set, and is no longer in
\* the to-download set.
FlaggedDownloaded(d, i) == \A k \in DOMAIN d : d[k].idx = i => d[k].downloaded
C14_SyncDownloadReconciled ==
    [][(main.pc = "sync" /\ main'.pc = "idle") =>
          \A i \in main.ids :
              ArtifactOnDisk(fs', main.dir, i) =>
                  /\ FlaggedDownloaded(df', i)
                  /\ FlaggedDownloaded(search_df', i)
                  /\ i \notin Index(to_download(search_df', df'))]_vars

\* C15: when download_all returns, called with an initialized store and a Search
\* Result Set present, every identifier of the Search Result Set is in the ledger
\* and in the persisted ledger file, also when nothing was left to download.
DownloadAllReturned ==
    last.op = "download_all" /\ last.ret \in {"nothing", "submitted", "downloaded"}
C15_SearchMergedOnReturn ==
    (DownloadAllReturned /\ initialized(df) /\ search_df # NoneDf) =>
        /\ Index(search_df) \subseteq Index(df)
        /\ Index(search_df) \subseteq Index(read_csv(fs[folder].csv))

\* C17: across every step that leaves the store open on the same path (every
\* merge and every reconcile, of the main thread and of the monitor worker), the
\* identifiers of the ledger after the step include those before it.
StaysOpen ==
    /\ initialized(df)
    /\ initialized(df')
    /\ folder' = folder
    /\ last'.op \notin {"create", "open"}
C17_LedgerOnlyGrows ==
    [][StaysOpen => Index(df) \subseteq Index(df')]_vars

\* C18: while the monitor worker is inside its final reconciliation the main
\* thread starts no operation that reads or changes the ledger, and what the
\* monitor worker assigns to the ledger drops no row the main thread has merged.
LedgerOps == {"add_data", "update", "update_local_info", "query", "download_all"}
MainTouchesLedger == last = Neutral /\ last'.op \in LedgerOps
C18_SingleCrossThreadMutation ==
    [][/\ MonitorReconciling => ~MainTouchesLedger
       /\ (monitor = "assign" /\ monitor' = "save") => Index(df) \subseteq Index(df')]_vars

\* C16: the to-download set download_all computes holds each identifier once, and
\* holds exactly the identifiers of the Search Result Set and the ledger that the
\* (merged) ledger does not flag downloaded; an identifier the ledger flags
\* downloaded is not passed to the bulk download; with an empty set the pool, its
\* tasks and the main thread's position are left as they are.
LedgerDownloaded(d, i) == \E k \in DOMAIN d : d[k].idx = i /\ d[k].downloaded
C16_ToDownloadSet ==
    [][(main.pc = "idle" /\ last'.op = "download_all" /\ initialized(df)) =>
          LET td == to_download(search_df, df')
          IN /\ ~HasDuplicates(td)
             /\ Index(td) = {i \in Index(df') : ~LedgerDownloaded(df', i)}
             /\ len(td) = 0 =>
                   <<executor', result', monitor', task', main'>> = <<executor, result, monitor, task, main>>]_vars

\* C20 as claimed: download_all(background=True) that comes to replace a pool
\* whose tasks have not finished returns at once, with the new tasks submitted.
PriorUnfinished == executor # None /\ (InFlight \/ monitor \notin {None, "done"})
ReplacesPool ==
    /\ main.pc = "idle"
    /\ last'.op = "download_all"
    /\ last'.ret \in {"blocked", "submitted"}
    /\ PriorUnfinished
C20_ReplaceWithoutBlocking ==
    [][ReplacesPool => (main'.pc = "idle" /\ last'.ret = "submitted")]_vars

\* C20 amended: such a call cancels nothing and does not return: it stays in
\* executor.shutdown() while the pool and its two tasks go on untouched, and only
\* when both prior tasks have finished does it create the new pool and submit.
C20_ReplaceAwaitsPrior ==
    [][/\ ReplacesPool =>
             /\ main'.pc = "shutdown"
             /\ <<executor', result', monitor', task'>> = <<executor, result, monitor, task>>
       /\ (main.pc = "shutdown" /\ main'.pc = "shutdown") =>
             /\ <<executor', task'>> = <<executor, task>>
             /\ result' # None /\ monitor' # None
       /\ (main.pc = "shutdown" /\ main'.pc # "shutdown") =>
             /\ result = "done" /\ monitor = "done"
             /\ result' = "pending" /\ monitor' = "pending"
             /\ main'.pc = "idle"]_vars

\* the call is waiting in shutdown() while the prior download is still running
C20_Witness ==
    main.pc = "shutdown" /\ result = "running" /\ monitor = "poll"

\* C21: the combined view has the identifiers of the Search Result Set and of the
\* ledger, each once; an identifier of both has the Search Result Set's row; with
\* no Search Result Set rows the view is the ledger, with no store it is the
\* Search Result Set (a frame that is absent counts as one with no rows).
FrameRows(d) == IF d = NoneDf THEN <<>> ELSE d
C21_CombinedView ==
    LET c == FrameRows(combined_df(search_df, df))
        s == FrameRows(search_df)
        d == FrameRows(df)
    IN /\ Index(c) = Index(s) \cup Index(d)
       /\ ~HasDuplicates(c)
       /\ \A k \in DOMAIN c : c[k].idx \in Index(s) => \E j \in DOMAIN s : s[j] = c[k]
       /\ s = <<>> => c = d
       /\ d = <<>> => c = s

\* C22: after update_local_info on an initialized store, a product that is in the
\* Search Result Set and in the ledger has the same downloaded flag and the same
\* qlook flag in both; on an uninitialized store every Search Result Set row has
\* both flags false.
C22_SameFilesystemChecks ==
    last.op = "update_local_info" =>
        LET s == FrameRows(search_df)
            d == FrameRows(df)
        IN IF initialized(df)
           THEN \A j \in DOMAIN s, k \in DOMAIN d :
                    s[j].idx = d[k].idx =>
                        /\ s[j].downloaded = d[k].downloaded
                        /\ s[j].qlook = d[k].qlook
           ELSE \A j \in DOMAIN s : ~s[j].downloaded /\ ~s[j].qlook

\* C23: the store starts uninitialized; a create or open step leaves it
\* initialized on the given path when it succeeds, and uninitialized (no ledger,
\* no folder, filesystem untouched) when it fails, whatever was loaded before;
\* no other step changes whether the store is initialized or where.
CreateOrOpenStep == last = Neutral /\ last'.op \in {"create", "open"}
C23_InitializedIffLastSucceeded ==
    /\ ~initialized(df) /\ folder = None
    /\ [][IF CreateOrOpenStep
          THEN IF last'.ret = "True"
               THEN initialized(df') /\ folder' = last'.path
               ELSE ~initialized(df') /\ folder' = None /\ fs' = fs
          ELSE (initialized(df') <=> initialized(df)) /\ folder' = folder]_vars

====
